---- MODULE Spec2Model ----
(***************************************************************************)
(* Model of run.py: the note-taking command interpreter                    *)
(* (CommandProcessor), the conversation log (Conversation) and the agent   *)
(* loop (main_agent_environment).                                          *)
(*                                                                         *)
(* Python strings are TLA+ strings (sequences of characters): Len, \o,     *)
(* SubSeq, Head and Tail act on them character by character.               *)
(***************************************************************************)
EXTENDS Integers, Sequences, FiniteSets, TLC

(***************************************************************************)
(* Bounds.                                                                 *)
(***************************************************************************)
\* Number of (assistant, response) pairs the log may hold before the model
\* stops issuing further model calls (the loop itself is unbounded).
MaxTurns == 2

\* Bound on the length of a log built by direct calls of Conversation.
MaxLog == 3

(***************************************************************************)
(* String primitives (Python str methods used by run.py).                  *)
(***************************************************************************)
Ch(s, i) == SubSeq(s, i, i)

\* s[n:]
Drop(s, n) == IF n >= Len(s) THEN "" ELSE SubSeq(s, n + 1, Len(s))

\* s[:n]
Take(s, n) == IF n >= Len(s) THEN s ELSE SubSeq(s, 1, n)

StartsWith(s, p) == Len(s) >= Len(p) /\ Take(s, Len(p)) = p

\* str.isspace / regex \s on the characters the model draws from.
IsSpace(c) == c \in {" ", "\t", "\n", "\r"}

RECURSIVE lstrip(_)
lstrip(s) == IF s # "" /\ IsSpace(Head(s)) THEN lstrip(Tail(s)) ELSE s

RECURSIVE rstrip(_)
rstrip(s) ==
    IF s # "" /\ IsSpace(Ch(s, Len(s))) THEN rstrip(Take(s, Len(s) - 1)) ELSE s

\* str.strip()
strip(s) == rstrip(lstrip(s))

UpperLetters == "ABCDEFGHIJKLMNOPQRSTUVWXYZ"

LowerLetters == "abcdefghijklmnopqrstuvwxyz"

UpperSet == { Ch(UpperLetters, i) : i \in 1..26 }

LowerOf ==
    [c \in UpperSet |->
        Ch(LowerLetters, CHOOSE i \in 1..26 : Ch(UpperLetters, i) = c)]

LowerChar(c) == IF c \in UpperSet THEN LowerOf[c] ELSE c

RECURSIVE lower(_)
\* str.lower(), also the folding done by re.IGNORECASE on ASCII letters
lower(s) ==
    IF Len(s) <= 1 THEN LowerChar(s)
    ELSE lower(Take(s, Len(s) \div 2)) \o lower(Drop(s, Len(s) \div 2))

\* Index of the first occurrence of p in s at or after position from, 0 if none.
Find(s, p, from) ==
    LET hits == { i \in from..(Len(s) - Len(p) + 1) :
                    SubSeq(s, i, i + Len(p) - 1) = p }
    IN  IF hits = {} THEN 0
        ELSE CHOOSE i \in hits : \A j \in hits : i <= j

\* Case-insensitive Find (p is given in lower case); folding keeps positions.
FindCI(s, p, from) == Find(lower(s), p, from)

\* str.replace(old, new) for a one-character old.
RECURSIVE replace(_, _, _)
replace(s, old, new) ==
    IF Len(s) <= 1 THEN (IF s = old THEN new ELSE s)
    ELSE replace(Take(s, Len(s) \div 2), old, new)
            \o replace(Drop(s, Len(s) \div 2), old, new)

\* ",".join(names) for a sequence of strings.
RECURSIVE join(_, _)
join(sep, names) ==
    IF names = <<>> THEN ""
    ELSE IF Len(names) = 1 THEN names[1]
    ELSE names[1] \o sep \o join(sep, Tail(names))

(***************************************************************************)
(* CommandProcessor: the command grammar (re.fullmatch) and the            *)
(* interpreter.  The store self.notes is an insertion-ordered dict: a      *)
(* sequence of [name, text] entries with pairwise distinct names.          *)
(***************************************************************************)
NoMatch == [matched |-> FALSE, name |-> "", text |-> ""]

\* Variant of add_note_match: the text group is .* and runs to the last
\* closing delimiter.
add_note_match_greedy(s) ==
    LET pre == "<add-note name=\""
        mid == "\" text=\""
        suf == "\"/>"
    IN  IF ~StartsWith(s, pre) THEN NoMatch
        ELSE LET r1 == Drop(s, Len(pre))
                 q1 == Find(r1, "\"", 1)
             IN  IF q1 <= 1 THEN NoMatch
                 ELSE LET r2 == Drop(r1, q1 - 1)
                      IN  IF ~StartsWith(r2, mid) THEN NoMatch
                          ELSE LET r3 == Drop(r2, Len(mid))
                               IN  IF Len(r3) < 3 \/ Drop(r3, Len(r3) - 3) # suf
                                   THEN NoMatch
                                   ELSE [matched |-> TRUE,
                                         name |-> Take(r1, q1 - 1),
                                         text |-> Take(r3, Len(r3) - 3)]

\* re.fullmatch(r'<add-note name="([^"]+)" text="([^"]*)"/>', s)
add_note_match(s) ==
    LET pre == "<add-note name=\""
        mid == "\" text=\""
        suf == "\"/>"
    IN  IF ~StartsWith(s, pre) THEN NoMatch
        ELSE LET r1 == Drop(s, Len(pre))
                 q1 == Find(r1, "\"", 1)
             IN  IF q1 <= 1 THEN NoMatch
                 ELSE LET r2 == Drop(r1, q1 - 1)
                      IN  IF ~StartsWith(r2, mid) THEN NoMatch
                          ELSE LET r3 == Drop(r2, Len(mid))
                                   q2 == Find(r3, "\"", 1)
                               IN  IF q2 = 0 \/ Drop(r3, q2 - 1) # suf
                                   THEN NoMatch
                                   ELSE [matched |-> TRUE,
                                         name |-> Take(r1, q1 - 1),
                                         text |-> Take(r3, q2 - 1)]

\* Variant of get_notes_match: re.match, which accepts trailing text.
get_notes_match_prefix(s) == StartsWith(s, "<get-notes/>")

\* re.fullmatch(r'<get-notes/>', s)
get_notes_match(s) == s = "<get-notes/>"

\* re.fullmatch(r'<get-note name="([^"]+)"/>', s)
get_note_match(s) ==
    LET pre == "<get-note name=\""
        suf == "\"/>"
    IN  IF ~StartsWith(s, pre) THEN NoMatch
        ELSE LET r1 == Drop(s, Len(pre))
                 q1 == Find(r1, "\"", 1)
             IN  IF q1 <= 1 \/ Drop(r1, q1 - 1) # suf THEN NoMatch
                 ELSE [matched |-> TRUE, name |-> Take(r1, q1 - 1), text |-> ""]

\* self.notes.keys(), in insertion order
keys(ns) == [i \in 1..Len(ns) |-> ns[i].name]

\* name in self.notes
HasNote(ns, name) == \E i \in 1..Len(ns) : ns[i].name = name

\* self.notes[name]
NoteText(ns, name) == ns[CHOOSE i \in 1..Len(ns) : ns[i].name = name].text

\* Variant of SetNote: a new entry is put in front of the older ones.
SetNote_front(ns, name, text) ==
    IF HasNote(ns, name)
    THEN [i \in 1..Len(ns) |->
            IF ns[i].name = name THEN [name |-> name, text |-> text] ELSE ns[i]]
    ELSE <<[name |-> name, text |-> text]>> \o ns

\* self.notes[name] = text
SetNote(ns, name, text) ==
    IF HasNote(ns, name)
    THEN [i \in 1..Len(ns) |->
            IF ns[i].name = name THEN [name |-> name, text |-> text] ELSE ns[i]]
    ELSE Append(ns, [name |-> name, text |-> text])

\* Variant of xml_escape: the ampersand is replaced last.
xml_escape_amp_last(text) ==
    replace(replace(replace(replace(replace(text,
        "<", "&lt;"), ">", "&gt;"), "\"", "&quot;"), "'", "&apos;"), "&", "&amp;")

\* The chain of str.replace calls applied to the text of a note-content.
xml_escape(text) ==
    replace(replace(replace(replace(replace(text,
        "&", "&amp;"), "<", "&lt;"), ">", "&gt;"), "\"", "&quot;"), "'", "&apos;")

MalformedResponse == "<error reason=\"Unknown or malformed command.\"/>"

NotFoundResponse == "<error reason=\"note_not_found\"/>"

\* Variant of add_note: the duplicate check is missing, the add overwrites.
add_note_overwrite(ns, name, text) ==
    [response |-> "<note-added name=\"" \o name \o "\"/>",
     notes |-> SetNote(ns, name, text)]

\* Variant of add_note: a successful add drops the older entries.
add_note_evicts(ns, name, text) ==
    IF HasNote(ns, name)
    THEN [response |-> "<error reason=\"Note name '" \o name
                         \o "' already exists.\"/>",
          notes |-> ns]
    ELSE [response |-> "<note-added name=\"" \o name \o "\"/>",
          notes |-> <<[name |-> name, text |-> text]>>]

\* Variant of add_note: the text is escaped when it is stored.
add_note_escaped(ns, name, text) ==
    IF HasNote(ns, name)
    THEN [response |-> "<error reason=\"Note name '" \o name
                         \o "' already exists.\"/>",
          notes |-> ns]
    ELSE [response |-> "<note-added name=\"" \o name \o "\"/>",
          notes |-> SetNote(ns, name, xml_escape(text))]

\* process_command, the add-note branch
add_note(ns, name, text) ==
    IF HasNote(ns, name)
    THEN [response |-> "<error reason=\"Note name '" \o name
                         \o "' already exists.\"/>",
          notes |-> ns]
    ELSE [response |-> "<note-added name=\"" \o name \o "\"/>",
          notes |-> SetNote(ns, name, text)]

\* Variant of get_notes: listing empties the store.
get_notes_clears(ns) ==
    IF ns = <<>>
    THEN [response |-> "<notes-list names=\"\"/>", notes |-> ns]
    ELSE [response |-> "<notes-list names=\"" \o join(",", keys(ns)) \o "\"/>",
          notes |-> <<>>]

\* process_command, the get-notes branch
get_notes(ns) ==
    IF ns = <<>>
    THEN [response |-> "<notes-list names=\"\"/>", notes |-> ns]
    ELSE [response |-> "<notes-list names=\"" \o join(",", keys(ns)) \o "\"/>",
          notes |-> ns]

\* Variant of get_note: a missing note falls through to the generic error.
get_note_fallthrough(ns, name) ==
    IF HasNote(ns, name)
    THEN [response |-> "<note-content name=\"" \o name \o "\" text=\""
                         \o xml_escape(NoteText(ns, name)) \o "\"/>",
          notes |-> ns]
    ELSE [response |-> MalformedResponse, notes |-> ns]

\* process_command, the get-note branch
get_note(ns, name) ==
    IF HasNote(ns, name)
    THEN [response |-> "<note-content name=\"" \o name \o "\" text=\""
                         \o xml_escape(NoteText(ns, name)) \o "\"/>",
          notes |-> ns]
    ELSE [response |-> NotFoundResponse, notes |-> ns]

\* CommandProcessor.process_command: the response and the store afterwards.
process_command(ns, llm_command_str) ==
    LET s   == strip(llm_command_str)
        add == add_note_match(s)
        get == get_note_match(s)
    IN  IF add.matched THEN add_note(ns, add.name, add.text)
        ELSE IF get_notes_match(s) THEN get_notes(ns)
        ELSE IF get.matched THEN get_note(ns, get.name)
        ELSE [response |-> MalformedResponse, notes |-> ns]

(***************************************************************************)
(* Turn post-processing in main_agent_environment.                         *)
(***************************************************************************)
\* re.sub(r"^\s*<think>.*?</think>\s*", "", s, flags=DOTALL|IGNORECASE):
\* the anchored pattern can match only at position 0, so at most one block
\* is removed; .*? stops at the first closing tag.
sub_think(s) ==
    LET t == lstrip(s)
    IN  IF lower(Take(t, 7)) = "<think>" /\ FindCI(t, "</think>", 8) # 0
        THEN lstrip(Drop(t, FindCI(t, "</think>", 8) + 7))
        ELSE s

\* command_after_think_strip
think_strip(llm_full_output) == strip(sub_think(strip(llm_full_output)))

\* Variant of assistant_prefix_match: re.IGNORECASE is missing.
assistant_prefix_match_cased(s) == Take(lstrip(s), 10) = "assistant>"

\* re.match(r"^\s*assistant>\s*", s, flags=IGNORECASE)
assistant_prefix_match(s) == lower(Take(lstrip(s), 10)) = "assistant>"

\* re.sub(r"^\s*assistant>\s*", "", s, flags=IGNORECASE)
sub_assistant_prefix(s) ==
    IF assistant_prefix_match(s) THEN lstrip(Drop(lstrip(s), 10)) ELSE s

PrefixErrorResponse ==
    "<error reason=\"Invalid command format: Do not include 'assistant>' prefix. Output only the command itself.\"/>"

(***************************************************************************)
(* Conversation.                                                           *)
(***************************************************************************)
\* The text of AGENT_SYSTEM_PROMPT, cut to its first sentence; the code only
\* depends on it being a fixed non-empty string.
AGENT_SYSTEM_PROMPT == "You are an AI agent."

\* Conversation.__init__(system_prompt); None is the empty string (both falsy)
NewConversation(system_prompt) ==
    IF system_prompt # "" THEN <<[role |-> "system", content |-> system_prompt]>>
    ELSE <<>>

\* Variant of add_message: the turn is put in front of the log.
add_message_front(msgs, role, content) ==
    <<[role |-> role, content |-> content]>> \o msgs

\* Conversation.add_message
add_message(msgs, role, content) ==
    Append(msgs, [role |-> role, content |-> content])

\* Variant of clear: the old system turn is kept next to the new one.
clear_keeps_old(msgs, prompt) ==
    (IF msgs # <<>> /\ msgs[1].role = "system" THEN <<msgs[1]>> ELSE <<>>)
    \o (IF prompt # ""
        THEN <<[role |-> "system", content |-> prompt]>> ELSE <<>>)

\* Variant of clear: the first turn is kept whatever its role.
clear_keeps_first(msgs, prompt) ==
    IF prompt # ""
    THEN <<[role |-> "system", content |-> prompt]>>
    ELSE IF msgs # <<>> THEN <<msgs[1]>>
    ELSE <<>>

\* Conversation.clear(new_system_prompt); None is the empty string
clear(msgs, prompt) ==
    IF prompt # ""
    THEN <<[role |-> "system", content |-> prompt]>>
    ELSE IF msgs # <<>> /\ msgs[1].role = "system" THEN <<msgs[1]>>
    ELSE <<>>

(***************************************************************************)
(* Inputs: what the model client may return and what the operator may      *)
(* type.                                                                   *)
(***************************************************************************)
Names == {"a", "b", "x,y"}

Texts == {"", "hi", "R&D <b>'q'</b> &lt;"}

AddCmd(n, t) == "<add-note name=\"" \o n \o "\" text=\"" \o t \o "\"/>"

ListCmd == "<get-notes/>"

GetCmd(n) == "<get-note name=\"" \o n \o "\"/>"

\* A name no add command of the model ever uses.
NeverAdded == "zz"

\* Inputs that are not one of the three command forms.
MalformedCmds ==
    { "",
      "<get-notes/> please",
      "Sure: <get-notes/>",
      "<get-notes/><get-notes/>",
      AddCmd("a", "hi") \o GetCmd("a"),
      AddCmd("a", "hi") \o " " \o AddCmd("b", "hi"),
      "<get-notes>",
      "<list-notes/>",
      "<GET-NOTES/>",
      "<get-note name=\"\"/>",
      "<add-note name=\"\" text=\"hi\"/>",
      "<add-note text=\"hi\" name=\"a\"/>",
      "<add-note name=\"a\"/>",
      "<add-note name='a' text='hi'/>",
      "<add-note name=\"a\" text=\"say \"hi\"\"/>",
      "<get-note name=\"a\" />",
      "get-note a" }

\* Commands handed to CommandProcessor.process_command.
Commands ==
    { AddCmd(n, t) : n \in Names, t \in Texts }
    \cup { ListCmd, " " \o ListCmd \o "\n", "\n" \o AddCmd("b", "hi") \o " " }
    \cup { GetCmd(n) : n \in Names \cup {NeverAdded} }
    \cup MalformedCmds

\* Raw outputs of the model client in the agent loop.
LLMOutputs ==
    { AddCmd("a", "hi"),
      AddCmd("a", "R&D <b>'q'</b> &lt;"),
      ListCmd,
      GetCmd("a"),
      "Sure: <get-notes/>",
      "",
      "<think>ignore</think><get-notes/>",
      "<think>y</think><get-notes/>",
      "<think>x</think><think>y</think><get-notes/>",
      "<THINK>\nplan\n</Think>\n" \o AddCmd("b", ""),
      "<think>a</think>",
      "assistant> " \o AddCmd("b", "hi"),
      "<think>ignore</think>ASSISTANT>" \o ListCmd,
      "Assistant>",
      "assistant> assistant> <get-notes/>",
      " <think>no end " \o ListCmd \o "\n" }

\* str(e) of the exceptions caught in OllamaClient.generate_response.
GenerationErrors == {"timed out"}

\* Lines the operator may type at the prompt.
OperatorInputs == {"", "  ", "ok", "clear", "CLEAR", " clear", "exit", "Quit"}

(***************************************************************************)
(* State.                                                                  *)
(***************************************************************************)
VARIABLES
    pc,                            \* position in main_agent_environment
    notes,                         \* command_processor.notes
    messages,                      \* conversation.messages
    llm_full_output,               \* locals of the loop body
    llm_included_assistant_prefix,
    final_command_candidate,
    suggested_system_response,
    user_override_response,
    startup_check,                 \* outcome of the checks of OllamaClient.__init__
    new_system_prompt,             \* argument of a direct Conversation.clear
    added                          \* history: notes created since the last reset

vars == <<pc, notes, messages, llm_full_output, llm_included_assistant_prefix,
          final_command_candidate, suggested_system_response,
          user_override_response, startup_check, new_system_prompt, added>>

\* History of the successful adds, kept from the command texts alone: an
\* add-note for a name not created since the last reset creates the note.
AddForms ==
    { [cmd |-> l \o AddCmd(n, t) \o r, name |-> n, text |-> t] :
        n \in Names, t \in Texts, l \in {"", " ", "\n"}, r \in {"", " ", "\n"} }

AddedAfter(h, cmd) ==
    IF \E f \in AddForms :
          f.cmd = cmd /\ \A i \in 1..Len(h) : h[i].name # f.name
    THEN LET f == CHOOSE f \in AddForms : f.cmd = cmd
         IN  Append(h, [name |-> f.name, text |-> f.text])
    ELSE h

\* main_agent_environment, up to the loop: the conversation and the command
\* processor are constructed, the client is not yet.
Init ==
    /\ pc = "startup"
    /\ notes = <<>>
    /\ messages = NewConversation(AGENT_SYSTEM_PROMPT)
    /\ llm_full_output = ""
    /\ llm_included_assistant_prefix = FALSE
    /\ final_command_candidate = ""
    /\ suggested_system_response = ""
    /\ user_override_response = ""
    /\ startup_check = "pending"
    /\ new_system_prompt = ""
    /\ added = <<>>

\* OllamaClient.__init__: client.list() answered and the model is in the
\* list.
StartupOk ==
    /\ pc = "startup"
    /\ pc' = "initialized"
    /\ startup_check' = "model_found"
    /\ UNCHANGED <<notes, messages, llm_full_output,
                   llm_included_assistant_prefix, final_command_candidate,
                   suggested_system_response, user_override_response,
                   new_system_prompt, added>>

\* OllamaClient.__init__: client.list() answered, but without a usable
\* 'models' list or without the model in it; warnings are printed.
StartupWarns ==
    /\ pc = "startup"
    /\ pc' = "initialized"
    /\ startup_check' = "model_missing"
    /\ UNCHANGED <<notes, messages, llm_full_output,
                   llm_included_assistant_prefix, final_command_candidate,
                   suggested_system_response, user_override_response,
                   new_system_prompt, added>>

\* OllamaClient.__init__ returns after either outcome and the loop is
\* entered; available_models is a local of the constructor and is gone.
ClientInitialized ==
    /\ pc = "initialized"
    /\ pc' = "generate"
    /\ startup_check' = "done"
    /\ UNCHANGED <<notes, messages, llm_full_output,
                   llm_included_assistant_prefix, final_command_candidate,
                   suggested_system_response, user_override_response,
                   new_system_prompt, added>>

\* Variant of StartupFails: the SystemExit is swallowed and the loop starts.
StartupFails_continues ==
    /\ pc = "startup"
    /\ pc' = "generate"
    /\ startup_check' = "error"
    /\ UNCHANGED <<notes, messages, llm_full_output,
                   llm_included_assistant_prefix, final_command_candidate,
                   suggested_system_response, user_override_response,
                   new_system_prompt, added>>

\* client.list() raises; OllamaClient.__init__ calls sys.exit(1) and
\* main_agent_environment returns.
StartupFails ==
    /\ pc = "startup"
    /\ pc' = "exited"
    /\ startup_check' = "error"
    /\ UNCHANGED <<notes, messages, llm_full_output,
                   llm_included_assistant_prefix, final_command_candidate,
                   suggested_system_response, user_override_response,
                   new_system_prompt, added>>

\* Variant of TurnOutcome: the marker is looked for in the raw output, before
\* the reasoning block is stripped.
TurnOutcome_marker_first(output, ns, msgs) ==
    LET stripped  == think_strip(output)
        prefixed  == assistant_prefix_match(strip(output))
        candidate == IF prefixed THEN strip(sub_assistant_prefix(stripped))
                     ELSE stripped
        logged    == add_message(msgs, "assistant", "assistant> " \o candidate)
    IN  IF prefixed
        THEN [prefixed |-> TRUE, candidate |-> candidate, messages |-> logged,
              invoked |-> FALSE, response |-> PrefixErrorResponse, notes |-> ns]
        ELSE [prefixed |-> FALSE, candidate |-> candidate, messages |-> logged,
              invoked |-> TRUE,
              response |-> process_command(ns, candidate).response,
              notes |-> process_command(ns, candidate).notes]

\* Variant of TurnOutcome: the raw output is what is logged.
TurnOutcome_logs_raw(output, ns, msgs) ==
    LET stripped  == think_strip(output)
        prefixed  == assistant_prefix_match(stripped)
        candidate == IF prefixed THEN strip(sub_assistant_prefix(stripped))
                     ELSE stripped
        logged    == add_message(msgs, "assistant", "assistant> " \o strip(output))
    IN  IF prefixed
        THEN [prefixed |-> TRUE, candidate |-> candidate, messages |-> logged,
              invoked |-> FALSE, response |-> PrefixErrorResponse, notes |-> ns]
        ELSE [prefixed |-> FALSE, candidate |-> candidate, messages |-> logged,
              invoked |-> TRUE,
              response |-> process_command(ns, candidate).response,
              notes |-> process_command(ns, candidate).notes]

\* The loop body from the model call to the operator prompt, for the string
\* generate_response returned: the locals, the log and the store afterwards.
TurnOutcome(output, ns, msgs) ==
    LET stripped  == think_strip(output)
        prefixed  == assistant_prefix_match(stripped)
        candidate == IF prefixed THEN strip(sub_assistant_prefix(stripped))
                     ELSE stripped
        logged    == add_message(msgs, "assistant", "assistant> " \o candidate)
    IN  IF prefixed
        THEN [prefixed |-> TRUE, candidate |-> candidate, messages |-> logged,
              invoked |-> FALSE, response |-> PrefixErrorResponse, notes |-> ns]
        ELSE [prefixed |-> FALSE, candidate |-> candidate, messages |-> logged,
              invoked |-> TRUE,
              response |-> process_command(ns, candidate).response,
              notes |-> process_command(ns, candidate).notes]

Turn(output) ==
    LET o == TurnOutcome(output, notes, messages)
    IN  /\ llm_full_output' = output
        /\ llm_included_assistant_prefix' = o.prefixed
        /\ final_command_candidate' = o.candidate
        /\ messages' = o.messages
        /\ suggested_system_response' = o.response
        /\ notes' = o.notes
        /\ added' = IF o.invoked THEN AddedAfter(added, o.candidate) ELSE added
        /\ pc' = "input"
        /\ UNCHANGED <<user_override_response, startup_check,
                       new_system_prompt>>

\* The model client returns content.
Generate ==
    /\ pc = "generate"
    /\ Len(messages) < 1 + 2 * MaxTurns
    /\ \E output \in LLMOutputs : Turn(output)

\* client.chat raises; generate_response returns the error string instead.
GenerateFails ==
    /\ pc = "generate"
    /\ Len(messages) < 1 + 2 * MaxTurns
    /\ \E e \in GenerationErrors :
          Turn("<error reason=\"LLM generation failed: " \o e \o "\"/>")

\* Variant of actual_system_response: the line is not trimmed.
actual_system_response_raw(line, suggested) ==
    IF line # "" THEN line ELSE suggested

\* Variant of actual_system_response: the default is always what is logged.
actual_system_response_default(line, suggested) == suggested

\* actual_system_response: the operator's line, trimmed, or the default.
actual_system_response(line, suggested) ==
    IF strip(line) # "" THEN strip(line) ELSE suggested

\* Variant of notes_after_input: a typed response also replaces the
\* processor.
notes_after_input_override(ns, line) ==
    IF lower(line) = "clear" \/ strip(line) # "" THEN <<>> ELSE ns

\* command_processor.notes once the operator's line is handled: 'clear'
\* replaces the processor by a new one.
notes_after_input(ns, line) == IF lower(line) = "clear" THEN <<>> ELSE ns

\* The operator answers the prompt.
OperatorInput ==
    /\ pc = "input"
    /\ \E line \in OperatorInputs :
          /\ user_override_response' = line
          /\ IF lower(line) \in {"exit", "quit"}
             THEN /\ pc' = "exited"
                  /\ UNCHANGED <<notes, messages, added>>
             ELSE IF lower(line) = "clear"
             THEN /\ messages' = clear(messages, AGENT_SYSTEM_PROMPT)
                  /\ notes' = notes_after_input(notes, line)
                  /\ added' = <<>>
                  /\ pc' = "generate"
             ELSE /\ messages' = add_message(messages, "user", "system> " \o
                        actual_system_response(line, suggested_system_response))
                  /\ notes' = notes_after_input(notes, line)
                  /\ pc' = "generate"
                  /\ UNCHANGED added
    /\ UNCHANGED <<llm_full_output, llm_included_assistant_prefix,
                   final_command_candidate, suggested_system_response,
                   startup_check, new_system_prompt>>

\* KeyboardInterrupt or EOFError at the prompt.
OperatorInterrupt ==
    /\ pc = "input"
    /\ pc' = "exited"
    /\ UNCHANGED <<notes, messages, llm_full_output,
                   llm_included_assistant_prefix, final_command_candidate,
                   suggested_system_response, user_override_response,
                   startup_check, new_system_prompt, added>>

Next ==
    \/ StartupOk
    \/ StartupWarns
    \/ ClientInitialized
    \/ StartupFails
    \/ Generate
    \/ GenerateFails
    \/ OperatorInput
    \/ OperatorInterrupt

Spec == Init /\ [][Next]_vars

(***************************************************************************)
(* The command processor on its own: process_command called directly on a  *)
(* CommandProcessor, which may be replaced by a fresh one.                 *)
(***************************************************************************)
InitProcessor ==
    /\ pc = "constructed"
    /\ notes = <<>>
    /\ messages = <<>>
    /\ llm_full_output = ""
    /\ llm_included_assistant_prefix = FALSE
    /\ final_command_candidate = ""
    /\ suggested_system_response = ""
    /\ user_override_response = ""
    /\ startup_check = "pending"
    /\ new_system_prompt = ""
    /\ added = <<>>

\* suggested_system_response = command_processor.process_command(cmd)
ProcessCommand ==
    /\ pc \in {"constructed", "returned"}
    /\ pc' = "returned"
    /\ \E cmd \in Commands :
          LET result == process_command(notes, cmd)
          IN  /\ final_command_candidate' = cmd
              /\ suggested_system_response' = result.response
              /\ notes' = result.notes
              /\ added' = AddedAfter(added, cmd)
    /\ UNCHANGED <<messages, llm_full_output,
                   llm_included_assistant_prefix, user_override_response,
                   startup_check, new_system_prompt>>

\* command_processor = CommandProcessor()
NewProcessor ==
    /\ pc \in {"constructed", "returned"}
    /\ pc' = "constructed"
    /\ notes' = <<>>
    /\ added' = <<>>
    /\ final_command_candidate' = ""
    /\ suggested_system_response' = ""
    /\ UNCHANGED <<messages, llm_full_output,
                   llm_included_assistant_prefix, user_override_response,
                   startup_check, new_system_prompt>>

NextProcessor == ProcessCommand \/ NewProcessor

SpecProcessor == InitProcessor /\ [][NextProcessor]_vars

(***************************************************************************)
(* The conversation on its own: a Conversation constructed with or without *)
(* a system prompt, then add_message and clear called directly, as         *)
(* main_interactive_chat does.                                             *)
(***************************************************************************)
\* System prompts handed to the constructor and to clear; "" stands for None.
SystemPrompts == {"", AGENT_SYSTEM_PROMPT, "Be brief."}

Roles == {"system", "user", "assistant"}

Contents == {"hi", "Be brief."}

\* conversation = Conversation(system_prompt)
InitConversation ==
    /\ pc = "conversation"
    /\ messages \in { NewConversation(p) : p \in SystemPrompts }
    /\ notes = <<>>
    /\ llm_full_output = ""
    /\ llm_included_assistant_prefix = FALSE
    /\ final_command_candidate = ""
    /\ suggested_system_response = ""
    /\ user_override_response = ""
    /\ startup_check = "pending"
    /\ new_system_prompt = ""
    /\ added = <<>>

\* conversation.add_message(role, content)
AddMessage ==
    /\ Len(messages) < MaxLog
    /\ \E role \in Roles, content \in Contents :
          messages' = add_message(messages, role, content)
    /\ pc' = "appended"
    /\ UNCHANGED <<notes, llm_full_output, llm_included_assistant_prefix,
                   final_command_candidate, suggested_system_response,
                   user_override_response, startup_check, new_system_prompt,
                   added>>

\* conversation.clear(new_system_prompt)
Clear ==
    /\ \E p \in SystemPrompts :
          /\ new_system_prompt' = p
          /\ messages' = clear(messages, p)
    /\ pc' = "cleared"
    /\ UNCHANGED <<notes, llm_full_output, llm_included_assistant_prefix,
                   final_command_candidate, suggested_system_response,
                   user_override_response, startup_check, added>>

NextConversation == AddMessage \/ Clear

SpecConversation == InitConversation /\ [][NextConversation]_vars

(***************************************************************************)
(* Properties of the command processor (checked under SpecProcessor).      *)
(***************************************************************************)
\* process_command returned in this step.
Returned == pc' = "returned"

AddedNames(h) == { h[i].name : i \in 1..Len(h) }

AddedText(h, n) == h[CHOOSE i \in 1..Len(h) : h[i].name = n].text

NoteAddedResponse(n) == "<note-added name=\"" \o n \o "\"/>"

DuplicateResponse(n) ==
    "<error reason=\"Note name '" \o n \o "' already exists.\"/>"

\* resp is a note-content response for the name n.
IsNoteContent(resp, n) ==
    LET pre == "<note-content name=\"" \o n \o "\" text=\""
    IN  /\ StartsWith(resp, pre)
        /\ Len(resp) >= Len(pre) + 3
        /\ Drop(resp, Len(resp) - 3) = "\"/>"

\* The value of the text attribute of a note-content response for n.
TextAttribute(resp, n) ==
    SubSeq(resp, Len("<note-content name=\"" \o n \o "\" text=\"") + 1,
           Len(resp) - 3)

RECURSIVE ReplaceAll(_, _, _)
ReplaceAll(s, old, new) ==
    LET i == Find(s, old, 1)
    IN  IF i = 0 THEN s
        ELSE Take(s, i - 1) \o new
                \o ReplaceAll(Drop(s, i - 1 + Len(old)), old, new)

\* The inverse of the escaping rule: entities back to characters, &amp; last.
Unescape(e) ==
    ReplaceAll(ReplaceAll(ReplaceAll(ReplaceAll(ReplaceAll(e,
        "&apos;", "'"), "&quot;", "\""), "&gt;", ">"), "&lt;", "<"), "&amp;", "&")

Entities == {"&amp;", "&lt;", "&gt;", "&quot;", "&apos;"}

EntityOf(c) ==
    IF c = "&" THEN "&amp;" ELSE IF c = "<" THEN "&lt;"
    ELSE IF c = ">" THEN "&gt;" ELSE IF c = "\"" THEN "&quot;"
    ELSE IF c = "'" THEN "&apos;" ELSE c

\* Every character of the text replaced once, by its entity.
RECURSIVE EscapedOnce(_)
EscapedOnce(t) ==
    IF Len(t) <= 1 THEN EntityOf(t)
    ELSE EscapedOnce(Take(t, Len(t) \div 2))
            \o EscapedOnce(Drop(t, Len(t) \div 2))

\* No raw & < > " ' in e outside the five entities.
NoRawSpecials(e) ==
    \A i \in 1..Len(e) :
        Ch(e, i) \in {"&", "<", ">", "\"", "'"} =>
            \E ent \in Entities : StartsWith(Drop(e, i - 1), ent)

\* C1: an add-note for a name not in the store (never added since the last
\* reset) answers note-added, and any later get-note for a name added since
\* the last reset answers a note-content carrying the text of that add.
RoundTrip ==
    [][Returned =>
        /\ \A n \in Names, t \in Texts :
              ( /\ final_command_candidate' = AddCmd(n, t)
                /\ (~HasNote(notes, n) \/ n \notin AddedNames(added)) )
              => /\ suggested_system_response' = NoteAddedResponse(n)
                 /\ ~HasNote(notes, n)
                 /\ n \notin AddedNames(added)
        /\ \A n \in Names :
              ( /\ final_command_candidate' = GetCmd(n)
                /\ n \in AddedNames(added) )
              => /\ IsNoteContent(suggested_system_response', n)
                 /\ Unescape(TextAttribute(suggested_system_response', n))
                        = AddedText(added, n)
    ]_vars

\* C1 witness: a get-note answered with the text of an earlier add, with
\* another note added in between.
RoundTripWitness ==
    /\ pc = "returned"
    /\ final_command_candidate = GetCmd("a")
    /\ Len(added) = 3
    /\ added[1] = [name |-> "a", text |-> "R&D <b>'q'</b> &lt;"]
    /\ suggested_system_response =
          "<note-content name=\"a\" text=\"R&amp;D &lt;b&gt;&apos;q&apos;&lt;/b&gt; &amp;lt;\"/>"

\* C2: an add-note for a name already in the store answers the duplicate-name
\* error and leaves the store as it was, the name still mapped to the text of
\* the first successful add.
DuplicateAdd ==
    [][Returned =>
        \A n \in Names, t \in Texts :
            ( /\ final_command_candidate' = AddCmd(n, t)
              /\ HasNote(notes, n) )
            => /\ suggested_system_response' = DuplicateResponse(n)
               /\ notes' = notes
               /\ n \in AddedNames(added)
               /\ NoteText(notes', n) = AddedText(added, n)
    ]_vars

\* C2 witness: a second add of "a" with another text was refused.
DuplicateAddWitness ==
    /\ pc = "returned"
    /\ final_command_candidate = AddCmd("a", "hi")
    /\ suggested_system_response =
          "<error reason=\"Note name 'a' already exists.\"/>"
    /\ HasNote(notes, "a")
    /\ NoteText(notes, "a") = ""

\* The names, comma-separated, built from the left.
RECURSIVE CommaSeparated(_)
CommaSeparated(names) ==
    IF Len(names) = 0 THEN ""
    ELSE IF Len(names) = 1 THEN names[1]
    ELSE CommaSeparated(SubSeq(names, 1, Len(names) - 1))
            \o "," \o names[Len(names)]

\* C3: get-notes answers the names successfully added since the last reset,
\* each once, comma-joined in the order of the adds; the empty store answers
\* an empty names attribute.
ListOrder ==
    [][(Returned /\ final_command_candidate' \in {ListCmd, " " \o ListCmd \o "\n"})
        => /\ suggested_system_response' =
                "<notes-list names=\""
                    \o CommaSeparated([i \in 1..Len(added) |-> added[i].name])
                    \o "\"/>"
           /\ added = <<>> => suggested_system_response' = "<notes-list names=\"\"/>"
           /\ \A i, j \in 1..Len(added) : added[i].name = added[j].name => i = j
           /\ notes' = notes
    ]_vars

\* C3 witness: three adds, then a refused add, then the list in add order.
ListOrderWitness ==
    /\ pc = "returned"
    /\ final_command_candidate = ListCmd
    /\ [i \in 1..Len(added) |-> added[i].name] = <<"b", "x,y", "a">>
    /\ suggested_system_response = "<notes-list names=\"b,x,y,a\"/>"

\* C4: get-note for a name that is not in the store answers note_not_found,
\* not the malformed-command error, and leaves the store as it was.
GetMissing ==
    [][Returned =>
        \A n \in Names \cup {NeverAdded} :
            ( /\ final_command_candidate' = GetCmd(n)
              /\ ~HasNote(notes, n) )
            => /\ suggested_system_response' = "<error reason=\"note_not_found\"/>"
               /\ suggested_system_response' # MalformedResponse
               /\ notes' = notes
    ]_vars

\* C4 witness: a missing name asked of a store that holds other notes.
GetMissingWitness ==
    /\ pc = "returned"
    /\ final_command_candidate = GetCmd("b")
    /\ Len(notes) = 2
    /\ ~HasNote(notes, "b")
    /\ suggested_system_response = "<error reason=\"note_not_found\"/>"

\* C5: the text attribute of a note-content is the stored text with each of
\* & < > " ' replaced once by its entity (none escaped twice); it holds no raw
\* special character, unescaping it gives back the stored text, and the get
\* leaves the stored text as it was.
Escaping ==
    [][Returned =>
        \A n \in Names :
            ( /\ final_command_candidate' = GetCmd(n)
              /\ HasNote(notes, n) )
            => /\ IsNoteContent(suggested_system_response', n)
               /\ LET e == TextAttribute(suggested_system_response', n)
                      t == NoteText(notes, n)
                  IN  /\ e = EscapedOnce(t)
                      /\ NoRawSpecials(e)
                      /\ Unescape(e) = t
               /\ notes' = notes
    ]_vars

\* C5 witness: a stored text with special characters and an entity was rendered.
EscapingWitness ==
    /\ pc = "returned"
    /\ final_command_candidate = GetCmd("b")
    /\ HasNote(notes, "b")
    /\ NoteText(notes, "b") = "R&D <b>'q'</b> &lt;"
    /\ suggested_system_response =
          "<note-content name=\"b\" text=\"R&amp;D &lt;b&gt;&apos;q&apos;&lt;/b&gt; &amp;lt;\"/>"

\* The command forms, as sets of strings.
AddForm == { AddCmd(n, t) : n \in Names, t \in Texts }

GetForm == { GetCmd(n) : n \in Names \cup {NeverAdded} }

\* The branch process_command takes on the trimmed input s.
Classes(s) ==
    LET add  == add_note_match(s).matched
        list == get_notes_match(s)
        get  == get_note_match(s).matched
    IN  (IF add THEN {"AddNote"} ELSE {})
        \cup (IF list THEN {"ListNotes"} ELSE {})
        \cup (IF get THEN {"GetNote"} ELSE {})
        \cup (IF ~add /\ ~list /\ ~get THEN {"Malformed"} ELSE {})

\* C6: every trimmed input falls in exactly one class, the class of its form;
\* an input that is not exactly one of the three command forms answers the
\* malformed-command error and leaves the store as it was.
WholeString ==
    [][Returned =>
        LET s == strip(final_command_candidate')
            c == Classes(s)
        IN  /\ Cardinality(c) = 1
            /\ s \in AddForm <=> c = {"AddNote"}
            /\ s = ListCmd <=> c = {"ListNotes"}
            /\ s \in GetForm <=> c = {"GetNote"}
            /\ s \in MalformedCmds <=> c = {"Malformed"}
            /\ s \in MalformedCmds =>
                  /\ suggested_system_response' =
                        "<error reason=\"Unknown or malformed command.\"/>"
                  /\ notes' = notes
            /\ s \notin MalformedCmds =>
                  suggested_system_response' # MalformedResponse
    ]_vars

\* C6 witness: two commands in one input were refused, the store kept.
WholeStringWitness ==
    /\ pc = "returned"
    /\ final_command_candidate = AddCmd("a", "hi") \o " " \o AddCmd("b", "hi")
    /\ suggested_system_response = MalformedResponse
    /\ Len(notes) = 1
    /\ ~HasNote(notes, "b")

(***************************************************************************)
(* Properties of the agent loop (checked under Spec).                      *)
(***************************************************************************)
\* The loop body ran from the model call to the operator prompt in this step.
TurnStep == pc = "generate" /\ pc' = "input"

\* Reasoning blocks and role markers as the model may write them.
ThinkBodies == {"ignore", "x", "y", "a", "\nplan\n"}

ThinkBlocks == { "<think>" \o b \o "</think>" : b \in ThinkBodies }

AnyCaseThinkBlocks ==
    ThinkBlocks \cup { "<THINK>" \o b \o "</Think>" : b \in ThinkBodies }

Markers == {"assistant>", "Assistant>", "ASSISTANT>"}

Spaces == {"", " ", "\n"}

\* The output, once a leading reasoning block is taken off, begins with a
\* role marker.
BeginsWithMarker(output) ==
    \E b \in AnyCaseThinkBlocks \cup {""}, w1 \in Spaces, w2 \in Spaces,
       m \in Markers :
        StartsWith(output, w1 \o b \o w2 \o m)

\* C7: when the output after reasoning-block stripping begins with the role
\* marker, the computed response is the fixed format error and the store is
\* left as it was, whatever command follows the marker.
FormatViolation ==
    [][(TurnStep /\ BeginsWithMarker(llm_full_output'))
        => /\ suggested_system_response' =
                "<error reason=\"Invalid command format: Do not include 'assistant>' prefix. Output only the command itself.\"/>"
           /\ llm_included_assistant_prefix'
           /\ notes' = notes
    ]_vars

\* C7 witness: a valid add-note behind the marker did not reach the store.
FormatViolationWitness ==
    /\ pc = "input"
    /\ llm_full_output = "assistant> " \o AddCmd("b", "hi")
    /\ suggested_system_response = PrefixErrorResponse
    /\ ~HasNote(notes, "b")
    /\ Len(notes) = 1

\* The logged turn, the computed response and the store of this step are
\* those of a turn on the raw output r from the same state.
SameAsTurnOn(r) ==
    LET o == TurnOutcome(r, notes, messages)
    IN  /\ messages' = o.messages
        /\ suggested_system_response' = o.response
        /\ notes' = o.notes

\* r begins, after optional white space, with a reasoning block of its own.
BeginsWithThink(r) ==
    \E w \in Spaces, b \in AnyCaseThinkBlocks : StartsWith(r, w \o b)

\* C8 as stated: for any remainder R, a turn on <think>X</think>R is the
\* same as a turn on R.
ThinkEquivalenceAnyRemainder ==
    [][TurnStep =>
        \A b \in ThinkBlocks :
            StartsWith(llm_full_output', b)
            => SameAsTurnOn(Drop(llm_full_output', Len(b)))
    ]_vars

\* C8 amended: for any remainder R that does not itself begin with a
\* reasoning block, a turn on <think>X</think>R logs the same assistant
\* turn, computes the same response and leaves the same store as a turn on R.
ThinkEquivalence ==
    [][TurnStep =>
        \A b \in ThinkBlocks :
            ( /\ StartsWith(llm_full_output', b)
              /\ ~BeginsWithThink(Drop(llm_full_output', Len(b))) )
            => SameAsTurnOn(Drop(llm_full_output', Len(b)))
    ]_vars

\* C8 witness: <think>ignore</think><get-notes/> listed a non-empty store.
ThinkEquivalenceWitness ==
    /\ pc = "input"
    /\ llm_full_output = "<think>ignore</think><get-notes/>"
    /\ final_command_candidate = "<get-notes/>"
    /\ suggested_system_response = "<notes-list names=\"a\"/>"
    /\ messages[Len(messages)].content = "assistant> <get-notes/>"

\* C9: at the model call that follows the operator's 'clear', the store is
\* empty and the log is exactly one system turn.
FullReset ==
    (pc = "generate" /\ user_override_response \in {"clear", "CLEAR"})
    => /\ notes = <<>>
       /\ Len(messages) = 1
       /\ messages[1].role = "system"
       /\ messages[1].content = AGENT_SYSTEM_PROMPT

\* C9 witness: 'clear' was entered in the second turn, after a turn that
\* had added a note.
FullResetWitness ==
    /\ pc = "generate"
    /\ user_override_response = "clear"
    /\ llm_full_output = GetCmd("a")
    /\ IsNoteContent(suggested_system_response, "a")
    /\ notes = <<>>
    /\ Len(messages) = 1

\* The intended command of each raw output: the output without its leading
\* reasoning block, without the role marker, trimmed.
IntendedCommand ==
    { <<AddCmd("a", "hi"), AddCmd("a", "hi")>>,
      <<AddCmd("a", "R&D <b>'q'</b> &lt;"), AddCmd("a", "R&D <b>'q'</b> &lt;")>>,
      <<ListCmd, ListCmd>>,
      <<GetCmd("a"), GetCmd("a")>>,
      <<"Sure: <get-notes/>", "Sure: <get-notes/>">>,
      <<"", "">>,
      <<"<think>ignore</think><get-notes/>", "<get-notes/>">>,
      <<"<think>y</think><get-notes/>", "<get-notes/>">>,
      <<"<think>x</think><think>y</think><get-notes/>",
        "<think>y</think><get-notes/>">>,
      <<"<THINK>\nplan\n</Think>\n" \o AddCmd("b", ""), AddCmd("b", "")>>,
      <<"<think>a</think>", "">>,
      <<"assistant> " \o AddCmd("b", "hi"), AddCmd("b", "hi")>>,
      <<"<think>ignore</think>ASSISTANT>" \o ListCmd, ListCmd>>,
      <<"Assistant>", "">>,
      <<"assistant> assistant> <get-notes/>", "assistant> <get-notes/>">>,
      <<" <think>no end " \o ListCmd \o "\n", "<think>no end " \o ListCmd>>,
      <<"<error reason=\"LLM generation failed: timed out\"/>",
        "<error reason=\"LLM generation failed: timed out\"/>">> }

\* C10: every turn appends one assistant turn whose content is 'assistant> '
\* followed by the intended command; where the raw output differs from the
\* intended command it is not the raw output that follows the marker.
LoggedTurn ==
    [][TurnStep =>
        \E io \in IntendedCommand :
            /\ io[1] = llm_full_output'
            /\ messages' = Append(messages,
                    [role |-> "assistant", content |-> "assistant> " \o io[2]])
            /\ io[2] # io[1] =>
                  messages'[Len(messages')].content
                      # "assistant> " \o llm_full_output'
    ]_vars

\* C10 witness: a turn with a reasoning block and a marker was logged as the
\* bare command.
LoggedTurnWitness ==
    /\ pc = "input"
    /\ llm_full_output = "<think>ignore</think>ASSISTANT><get-notes/>"
    /\ llm_included_assistant_prefix
    /\ messages[Len(messages)] =
          [role |-> "assistant", content |-> "assistant> <get-notes/>"]


(***************************************************************************)
(* Errors, failures and the operator (checked under Spec).                 *)
(***************************************************************************)
\* The error responses a turn can compute.
ProtocolErrors ==
    { "<error reason=\"Unknown or malformed command.\"/>",
      "<error reason=\"note_not_found\"/>",
      "<error reason=\"Invalid command format: Do not include 'assistant>' prefix. Output only the command itself.\"/>" }
    \cup { DuplicateResponse(n) : n \in Names }

\* Lines by which the operator accepts the computed response.
BlankLines == {"", "  "}

\* The response turn that reports r.
ResponseTurn(r) == [role |-> "user", content |-> "system> " \o r]

\* C11 as stated: whenever a turn computed an error and the loop goes on,
\* the error is the response turn logged after the offending assistant turn.
ErrorAlwaysLogged ==
    [][( /\ pc = "input"
         /\ suggested_system_response \in ProtocolErrors
         /\ pc' = "generate" )
       => messages' = Append(messages, ResponseTurn(suggested_system_response))
    ]_vars

\* C11: a model call always reaches the operator prompt, whatever error the
\* turn computed; an error the operator accepts is logged as the response
\* turn right after the offending assistant turn and the loop goes on to the
\* next model call; past the prompt the loop ends only on the operator's
\* exit, quit or interrupt.
ErrorReported ==
    [][ /\ pc = "generate" => pc' = "input"
        /\ ( pc = "input" /\ suggested_system_response \in ProtocolErrors )
           => /\ messages[Len(messages)].role = "assistant"
              /\ (user_override_response' \in BlankLines /\ pc' = "generate")
                 => messages' = Append(messages,
                        ResponseTurn(suggested_system_response))
              /\ pc' = "exited"
                 => \/ lower(user_override_response') \in {"exit", "quit"}
                    \/ UNCHANGED <<user_override_response, messages, notes>>
    ]_vars

\* C11 witness: a second add of "a" was refused, the operator accepted the
\* response with a blank line, and the error is the last turn of the log at
\* the next model call.
ErrorReportedWitness ==
    /\ pc = "generate"
    /\ user_override_response = "  "
    /\ Len(messages) = 5
    /\ messages[4].role = "assistant"
    /\ messages[4].content = "assistant> " \o AddCmd("a", "hi")
    /\ messages[5] =
          ResponseTurn("<error reason=\"Note name 'a' already exists.\"/>")

\* The string generate_response returns when client.chat raises 'timed out'.
GenerationFailed == "<error reason=\"LLM generation failed: timed out\"/>"

\* C12 as stated: after a failed model call, the failure string is the
\* response turn appended to the log when the operator accepts the turn.
GenerationFailureSurfaced ==
    [][( /\ pc = "input"
         /\ llm_full_output = GenerationFailed
         /\ user_override_response' \in BlankLines
         /\ pc' = "generate" )
       => messages' = Append(messages, ResponseTurn(GenerationFailed))
    ]_vars

\* The log main_agent_environment starts with.
InitialLog == <<[role |-> "system", content |-> AGENT_SYSTEM_PROMPT]>>

\* C13 as stated: once the connectivity check or the model-availability
\* check has failed, the run goes on to no model call.
StartupValidationFatal ==
    [][(startup_check \in {"error", "model_missing"}) => pc' # "generate"]_vars

\* C13: when client.list() raises, the run has ended with no model call and
\* no turn appended.
StartupErrorFatal ==
    startup_check = "error"
    => /\ pc = "exited"
       /\ messages = InitialLog
       /\ llm_full_output = ""
       /\ notes = <<>>

\* C13 witness: the run ended at startup on an error of client.list().
StartupErrorFatalWitness ==
    /\ startup_check = "error"
    /\ pc = "exited"
    /\ messages = InitialLog


(***************************************************************************)
(* The store across commands and turns.                                    *)
(***************************************************************************)
\* ns is the beginning of ms: every entry of ns is in ms at the same place.
IsPrefix(ns, ms) ==
    /\ Len(ns) <= Len(ms)
    /\ \A i \in 1..Len(ns) : ms[i] = ns[i]

\* C14 (under SpecProcessor): a call that answers note-added is an add-note
\* for a name not in the store and leaves the store with that one pair
\* appended; any other call leaves the store, entries and order, as it was.
FrameCondition ==
    [][Returned =>
        IF \E n \in Names : suggested_system_response' = NoteAddedResponse(n)
        THEN \E n \in Names, t \in Texts :
                /\ strip(final_command_candidate') = AddCmd(n, t)
                /\ \A i \in 1..Len(notes) : notes[i].name # n
                /\ notes' = Append(notes, [name |-> n, text |-> t])
        ELSE notes' = notes
    ]_vars

\* C14 witness: a get-notes on a store of two notes left both in place.
FrameConditionWitness ==
    /\ pc = "returned"
    /\ final_command_candidate = ListCmd
    /\ suggested_system_response = "<notes-list names=\"x,y,a\"/>"
    /\ notes = <<[name |-> "x,y", text |-> "hi"], [name |-> "a", text |-> ""]>>

\* The operator typed 'clear' at the prompt.
ClearStep ==
    pc = "input" /\ pc' = "generate" /\ lower(user_override_response') = "clear"

\* C15 (under Spec): on every step but a reset the store keeps each entry
\* it has, name and text, at its place, so it can only grow; the reset
\* leaves the empty store.
Lifecycle ==
    [][IF ClearStep THEN notes' = <<>> ELSE IsPrefix(notes, notes')]_vars

\* C15 witness: "a" was added with "hi", a second add of "a" with another
\* text was made in the next turn, and "a" still maps to "hi".
LifecycleWitness ==
    /\ pc = "generate"
    /\ llm_full_output = AddCmd("a", "R&D <b>'q'</b> &lt;")
    /\ Len(messages) = 5
    /\ messages[2].content = "assistant> " \o AddCmd("a", "hi")
    /\ notes = <<[name |-> "a", text |-> "hi"]>>

\* C16 (under Spec): at every model call the log is the system turn followed
\* by complete pairs of an assistant turn and a response turn.
LogShape ==
    pc = "generate"
    => /\ Len(messages) % 2 = 1
       /\ messages[1] = [role |-> "system", content |-> AGENT_SYSTEM_PROMPT]
       /\ \A i \in 2..Len(messages) :
             IF i % 2 = 0
             THEN /\ messages[i].role = "assistant"
                  /\ StartsWith(messages[i].content, "assistant> ")
             ELSE /\ messages[i].role = "user"
                  /\ StartsWith(messages[i].content, "system> ")

\* C16 witness: a model call with two complete pairs in the log.
LogShapeWitness ==
    /\ pc = "generate"
    /\ Len(messages) = 5
    /\ messages[3].content = "system> ok"
    /\ messages[5].content = "system> <notes-list names=\"\"/>"

\* C17 (under SpecConversation): clear with a prompt leaves the one system
\* turn holding it; clear without one leaves the previous first turn when
\* its role is system, and the empty log otherwise.
ConversationReset ==
    [][pc' = "cleared" =>
        IF new_system_prompt' # ""
        THEN messages' = <<[role |-> "system", content |-> new_system_prompt']>>
        ELSE IF Len(messages) > 0 /\ messages[1].role = "system"
        THEN messages' = <<messages[1]>>
        ELSE messages' = <<>>
    ]_vars

\* C17 witness: clear without a prompt kept a first turn that add_message
\* had logged with the system role.
ConversationResetWitness ==
    /\ pc = "cleared"
    /\ new_system_prompt = ""
    /\ messages = <<[role |-> "system", content |-> "hi"]>>

\* The text each non-blank line of OperatorInputs supplies, control words
\* apart.
SuppliedText == { <<"ok", "ok">>, <<" clear", "clear">> }

\* C18 (under Spec): a step from the prompt to the next model call that is
\* not a reset logs 'system> ' and the text the operator supplied, or, on a
\* blank line, 'system> ' and the computed response.
OverrideLogged ==
    [][(pc = "input" /\ pc' = "generate" /\ ~ClearStep) =>
        \/ /\ user_override_response' \in BlankLines
           /\ messages' = Append(messages,
                              ResponseTurn(suggested_system_response))
        \/ \E st \in SuppliedText :
              /\ user_override_response' = st[1]
              /\ messages' = Append(messages, ResponseTurn(st[2]))
    ]_vars

\* C18 witness: the operator answered "ok" to a note-added.
OverrideLoggedWitness ==
    /\ pc = "generate"
    /\ user_override_response = "ok"
    /\ suggested_system_response = "<note-added name=\"a\"/>"
    /\ messages[Len(messages)] = ResponseTurn("ok")

\* The raw outputs that carry an add-note the processor is given.
AddingOutputs ==
    { [output |-> AddCmd("a", "hi"), name |-> "a", text |-> "hi"],
      [output |-> AddCmd("a", "R&D <b>'q'</b> &lt;"),
       name |-> "a", text |-> "R&D <b>'q'</b> &lt;"],
      [output |-> "<THINK>\nplan\n</Think>\n" \o AddCmd("b", ""),
       name |-> "b", text |-> ""] }

\* The store after a turn, from the store before it and the raw output.
StoreAfter(ns, output) ==
    IF \E e \in AddingOutputs :
          e.output = output /\ \A i \in 1..Len(ns) : ns[i].name # e.name
    THEN LET e == CHOOSE e \in AddingOutputs : e.output = output
         IN  Append(ns, [name |-> e.name, text |-> e.text])
    ELSE ns

\* C19 (under Spec): the store after a turn is a function of the store
\* before it and the model output; a step from the prompt leaves the store
\* as it was whatever the operator typed, except 'clear', which empties it.
\* So the store after every turn is determined by the outputs and the
\* positions of 'clear'.
StoreIndependent ==
    [][ /\ TurnStep => notes' = StoreAfter(notes, llm_full_output')
        /\ (pc = "input" /\ ~ClearStep) => notes' = notes
        /\ ClearStep => notes' = <<>>
    ]_vars

\* C19 witness: the response to an add-note was overridden and the note is
\* in the store at the next model call.
StoreIndependentWitness ==
    /\ pc = "generate"
    /\ user_override_response = " clear"
    /\ messages[Len(messages) - 1].content = "assistant> " \o AddCmd("a", "hi")
    /\ messages[Len(messages)] = ResponseTurn("clear")
    /\ notes = <<[name |-> "a", text |-> "hi"]>>

\* The number of double-quote characters in s.
QuoteCount(s) == Cardinality({ i \in 1..Len(s) : Ch(s, i) = "\"" })

\* C20 (under SpecProcessor): every stored name is non-empty, no stored name
\* or text holds a double-quote, and the double-quotes of a response are the
\* delimiters of its attributes and nothing more.
Delimited ==
    /\ \A i \in 1..Len(notes) :
          /\ notes[i].name # ""
          /\ QuoteCount(notes[i].name) = 0
          /\ QuoteCount(notes[i].text) = 0
    /\ pc = "returned"
       => QuoteCount(suggested_system_response) =
             IF StartsWith(suggested_system_response, "<note-content ")
             THEN 4 ELSE 2

\* C20 witness: an add-note whose text holds double-quotes was refused, the
\* store holding a note.
DelimitedWitness ==
    /\ pc = "returned"
    /\ final_command_candidate = "<add-note name=\"a\" text=\"say \"hi\"\"/>"
    /\ suggested_system_response = "<error reason=\"Unknown or malformed command.\"/>"
    /\ notes = <<[name |-> "b", text |-> "R&D <b>'q'</b> &lt;"]>>

====
